---- MODULE Spec2Model ----
(***************************************************************************)
(* Temperature analysis and live weather monitoring                        *)
(* (analysis.py, weather_monitor.py, app.py).                              *)
(*                                                                         *)
(* Numbers are exact.  A temperature is an integer.  A mean is kept as the *)
(* fraction num/den, a sample standard deviation by its square             *)
(* varnum/varden, and a bound mean + k*std as the triple (mean, k, std);   *)
(* comparisons are decided exactly, so floating-point rounding is not      *)
(* part of the model.  NaN is the value pandas and Python give to a        *)
(* missing number: every ordered comparison with it is false.              *)
(***************************************************************************)
EXTENDS Integers, Sequences, FiniteSets

\* ------------------------------------------------------------ numbers

NaN == [nan |-> TRUE]
NoCol == [nocol |-> TRUE]     \* the column does not exist in the frame yet
SomeNumber == [number |-> TRUE]   \* a number whose value the model does not compute

Abs(x) == IF x < 0 THEN -x ELSE x

\* The same sequence, as a plain tuple: TLC evaluates a function constructor anew at
\* every application, a tuple once
Eager(s) == SubSeq(s, 1, Len(s))

RECURSIVE Sum(_)
Sum(xs) == IF xs = <<>> THEN 0 ELSE Head(xs) + Sum(Tail(xs))

RECURSIVE SumSq(_)
SumSq(xs) == IF xs = <<>> THEN 0 ELSE Head(xs) * Head(xs) + SumSq(Tail(xs))

\* Series.mean(): NaN for an empty series
Mean(xs) == IF Len(xs) = 0 THEN NaN ELSE [num |-> Sum(xs), den |-> Len(xs)]

\* Series.std(), ddof = 1: NaN with fewer than two observations.
\* std^2 = (n*sum(x^2) - sum(x)^2) / (n*(n-1))
Std(xs) ==
    IF Len(xs) < 2 THEN NaN
    ELSE [varnum |-> Len(xs) * SumSq(xs) - Sum(xs) * Sum(xs),
          varden |-> Len(xs) * (Len(xs) - 1)]

\* mean + k*std in float arithmetic: NaN as soon as one operand is NaN
Band(mean, k, std) ==
    IF mean = NaN \/ std = NaN THEN NaN ELSE [mean |-> mean, k |-> k, std |-> std]

\* t - b.mean as a numerator over b.mean.den
Diff(t, b) == t * b.mean.den - b.mean.num

\* (t - mean)^2 compared with k^2 * std^2, cross-multiplied
SqLhs(t, b) == Diff(t, b) * Diff(t, b) * b.std.varden
SqRhs(b) == b.k * b.k * b.std.varnum * b.mean.den * b.mean.den

\* t < b for a number t and a bound b = mean + k*std; False when b is NaN
Less(t, b) ==
    IF b = NaN THEN FALSE
    ELSE IF b.k >= 0
         THEN Diff(t, b) < 0 \/ SqLhs(t, b) < SqRhs(b)
         ELSE Diff(t, b) < 0 /\ SqLhs(t, b) > SqRhs(b)

\* t > b; False when b is NaN
Greater(t, b) ==
    IF b = NaN THEN FALSE
    ELSE IF b.k <= 0
         THEN Diff(t, b) > 0 \/ SqLhs(t, b) < SqRhs(b)
         ELSE Diff(t, b) > 0 /\ SqLhs(t, b) > SqRhs(b)

\* ------------------------------------------------------------ bounds

WINDOW_SIZE == 30         \* analysis.py: the rolling window, in days
MaxWindow == 3            \* the small windows 2..MaxWindow are explored beside it
MaxExtra == 2             \* the long city has window-1 .. window+MaxExtra readings

Long == "Berlin"
Short == "Cairo"
Cities == {Long, Short}
Windows == (2..MaxWindow) \cup {WINDOW_SIZE}
SpikeHeights == {6}
ShortLengths == {0, 1, 2}     \* the short city's number of readings
ShortDays == {1, 2}           \* the days its readings fall on

VARIABLES
    window,       \* WINDOW_SIZE as configured for the run
    path,         \* "script" (analysis.py __main__) or "dashboard" (app.py)
    pc,           \* position in the main script
    csv,          \* the rows of the CSV file, in file order
    df,           \* the frame the pipeline works on
    df_seq,       \* script: the copy given to calc_moving_avg(parallel=False)
    df_par,       \* script: the copy given to calc_moving_avg(parallel=True)
    results,      \* pool.map: city -> (mean_vals, std_vals), or Pending
    merged,       \* the cities whose worker result has been written back
    trends,       \* calc_trend's return value, NoValue before it returns
    given         \* the frame as it was handed to calc_moving_avg

avars == <<window, path, pc, csv, df, df_seq, df_par, results, merged, trends, given>>

\* The live check: weather_monitor.py __main__ and the dashboard's current-weather block
VARIABLES
    lpath,          \* "monitor" (weather_monitor.py __main__) or "dashboard" (app.py)
    lpc,            \* position in the script
    hist,           \* the historical frame: rows of city, season, temperature
    month,          \* datetime.now().month
    cities,         \* the cities asked for: the batch, or the dashboard's selected city
    response,       \* city -> what the weather API answers for it
    has_key,        \* dashboard: the API key field is filled in
    results_sync,   \* fetch_all_temps_sync's list, as built so far
    slots,          \* asyncio.gather: task number -> its result, or Pending
    completed,      \* the task numbers in the order the tasks finished
    results_async,  \* what asyncio.run(fetch_all_temps_async(...)) returned
    current,        \* dashboard: what get_current_temp returned
    checked,        \* monitor: entries of results_async the check loop has seen
    verdicts,       \* the calls of check_anomaly: task, city, temperature, stats, result
    log,            \* what the logger received
    screen          \* what streamlit was told to show

lvars == <<lpath, lpc, hist, month, cities, response, has_key, results_sync, slots,
           completed, results_async, current, checked, verdicts, log, screen>>

\* ------------------------------------------------------------ the CSV files explored

\* The long city's temperatures: 0 everywhere but a spike of height h at position p
LongTemp(i, p, h) == IF i = p THEN h ELSE 0
ShortTemp(j) == 2 * j

\* File position of the long city's i-th row and of the short city's j-th row, the
\* short city's j-th row following the long city's row gap[j]
LongPos(i, gap) == i + Cardinality({j \in DOMAIN gap : gap[j] < i})
ShortPos(j, gap) == gap[j] + j

CsvFile(nL, p, h, desc, nS, days, gap) ==
    [pos \in 1..(nL + nS) |->
        IF \E i \in 1..nL : LongPos(i, gap) = pos
        THEN LET i == CHOOSE i \in 1..nL : LongPos(i, gap) = pos
             IN [city |-> Long,
                 timestamp |-> IF desc THEN nL + 1 - i ELSE i,
                 temperature |-> LongTemp(i, p, h)]
        ELSE LET j == CHOOSE j \in 1..nS : ShortPos(j, gap) = pos
             IN [city |-> Short, timestamp |-> days[j], temperature |-> ShortTemp(j)]]

Gaps(nL) == {0, nL}
SpikePositions(nL) == {0, (nL \div 2) + 1} \cap (0..nL)

CsvFiles(w) ==
    { CsvFile(nL, p, h, desc, nS, days, gap) :
        <<nL, p, h, desc, nS, days, gap>> \in
            { t \in UNION { UNION { {nL} \X SpikePositions(nL) \X SpikeHeights \X BOOLEAN
                                    \X {nS} \X [1..nS -> ShortDays] \X [1..nS -> Gaps(nL)]
                                    : nS \in ShortLengths }
                            : nL \in (w - 1)..(w + MaxExtra) }
              : \A j \in DOMAIN t[7] : \A k \in DOMAIN t[7] : j < k => t[7][j] <= t[7][k] } }

\* ------------------------------------------------------------ frames

\* pd.read_csv: one row per line of the file, labelled 0, 1, ... (RangeIndex);
\* the derived columns do not exist yet
ReadFrame(rows) ==
    Eager([pos \in 1..Len(rows) |->
        [idx |-> pos - 1, city |-> rows[pos].city, timestamp |-> rows[pos].timestamp,
         temperature |-> rows[pos].temperature,
         moving_mean |-> NoCol, moving_std |-> NoCol, lower_bound |-> NoCol,
         upper_bound |-> NoCol, is_anomaly |-> NoCol, trend |-> NoCol]])

\* The orders in which a set of positions can be listed
PermSeqs(G) ==
    { s \in [1..Cardinality(G) -> G] : \A a, b \in DOMAIN s : a # b => s[a] # s[b] }

MinDay(frame, S) ==
    CHOOSE d \in {frame[i].timestamp : i \in S} : \A i \in S : d <= frame[i].timestamp

\* df.sort_values('timestamp'): the default sort is not stable, so rows of equal
\* timestamp come out in any order
RECURSIVE SortedOrders(_, _)
SortedOrders(frame, S) ==
    IF S = {} THEN {<<>>}
    ELSE LET first == MinDay(frame, S)
             G == {i \in S : frame[i].timestamp = first}
         IN { g \o rest : g \in PermSeqs(G), rest \in SortedOrders(frame, S \ G) }

Reorder(frame, order) == [k \in 1..Len(order) |-> frame[order[k]]]

\* df['city'].unique(): the cities in order of first appearance
RECURSIVE Unique(_, _)
Unique(frame, seen) ==
    IF frame = <<>> THEN <<>>
    ELSE IF Head(frame).city \in seen THEN Unique(Tail(frame), seen)
         ELSE <<Head(frame).city>> \o Unique(Tail(frame), seen \cup {Head(frame).city})

\* mask = df['city'] == city: the positions of the city's rows, in frame order
RECURSIVE MaskFrom(_, _, _)
MaskFrom(frame, city, pos) ==
    IF pos > Len(frame) THEN <<>>
    ELSE IF frame[pos].city = city THEN <<pos>> \o MaskFrom(frame, city, pos + 1)
         ELSE MaskFrom(frame, city, pos + 1)

Mask(frame, city) == MaskFrom(frame, city, 1)

\* df.loc[mask, col] as a Series: its index labels and its values
Labels(frame, city) ==
    LET mask == Mask(frame, city) IN Eager([k \in 1..Len(mask) |-> frame[mask[k]].idx])
Column(frame, city, col) ==
    LET mask == Mask(frame, city) IN Eager([k \in 1..Len(mask) |-> frame[mask[k]][col]])

\* ------------------------------------------------------------ rolling statistics

\* Series.rolling(window=w, center=True): FixedWindowIndexer with
\* offset = (w - 1) // 2; the window of the i-th reading (i = 1, 2, ...) ends at
\* i + offset and holds w readings, clipped to the series; min_periods = w
RollOffsetTrailing(w) == 0     \* mutant: center=True left out
RollOffset(w) == (w - 1) \div 2
RollFirst(i, w) == IF i + RollOffset(w) - w + 1 < 1 THEN 1 ELSE i + RollOffset(w) - w + 1
RollLast(i, w, n) == IF i + RollOffset(w) > n THEN n ELSE i + RollOffset(w)
RollWindow(xs, i, w) == SubSeq(xs, RollFirst(i, w), RollLast(i, w, Len(xs)))

RollingMean(xs, w) ==
    Eager([i \in 1..Len(xs) |->
             IF Len(RollWindow(xs, i, w)) < w THEN NaN ELSE Mean(RollWindow(xs, i, w))])

RollingStd(xs, w) ==
    Eager([i \in 1..Len(xs) |->
             IF Len(RollWindow(xs, i, w)) < w THEN NaN ELSE Std(RollWindow(xs, i, w))])

\* df.loc[mask, col] = series: the values are aligned on the index labels; a row
\* outside the mask keeps its value, NaN if the column is new
SetAligned(frame, city, col, labels, vals) ==
    Eager([pos \in 1..Len(frame) |->
        IF frame[pos].city = city
        THEN IF \E k \in DOMAIN labels : labels[k] = frame[pos].idx
             THEN [frame[pos] EXCEPT
                     ![col] = vals[CHOOSE k \in DOMAIN labels : labels[k] = frame[pos].idx]]
             ELSE [frame[pos] EXCEPT ![col] = NaN]
        ELSE IF frame[pos][col] = NoCol THEN [frame[pos] EXCEPT ![col] = NaN]
             ELSE frame[pos]])

\* df.loc[mask, col] = array: the k-th value goes to the k-th row of the mask
SetPositional(frame, city, col, vals) ==
    LET mask == Mask(frame, city)
    IN Eager([pos \in 1..Len(frame) |->
        IF frame[pos].city = city
        THEN [frame[pos] EXCEPT ![col] = vals[CHOOSE k \in DOMAIN vals : mask[k] = pos]]
        ELSE IF frame[pos][col] = NoCol THEN [frame[pos] EXCEPT ![col] = NaN]
             ELSE frame[pos]])

\* One turn of the sequential loop of calc_moving_avg
MovingOfCity(frame, city, w) ==
    LET withMean == SetAligned(frame, city, "moving_mean", Labels(frame, city),
                               RollingMean(Column(frame, city, "temperature"), w))
    IN SetAligned(withMean, city, "moving_std", Labels(withMean, city),
                  RollingStd(Column(withMean, city, "temperature"), w))

RECURSIVE MovingLoop(_, _, _)
MovingLoop(frame, todo, w) ==
    IF todo = <<>> THEN frame
    ELSE MovingLoop(MovingOfCity(frame, Head(todo), w), Tail(todo), w)

\* calc_moving_avg(df, parallel=False)
MovingSequential(frame, w) == MovingLoop(frame, Unique(frame, {}), w)

\* calc_city_moving((city_df, city)): the worker's result, as plain arrays
CalcCityMoving(frame, city, w) ==
    [mean_vals |-> RollingMean(Column(frame, city, "temperature"), w),
     std_vals |-> RollingStd(Column(frame, city, "temperature"), w)]

\* Mutant: the merge loop writes the two arrays into each other's column
MergeOfCitySwapped(frame, city, res) ==
    SetPositional(SetPositional(frame, city, "moving_mean", res.std_vals),
                  city, "moving_std", res.mean_vals)

\* One turn of the merge loop of calc_moving_avg(df, parallel=True)
MergeOfCity(frame, city, res) ==
    SetPositional(SetPositional(frame, city, "moving_mean", res.mean_vals),
                  city, "moving_std", res.std_vals)

\* ------------------------------------------------------------ anomalies

\* calc_anomalies: the three column assignments, row by row
\* Mutant: is_anomaly = not (lower_bound < temperature < upper_bound)
AnomalyRowNotInside(r) ==
    LET lower == Band(r.moving_mean, -2, r.moving_std)
        upper == Band(r.moving_mean, 2, r.moving_std)
    IN [r EXCEPT !.lower_bound = lower, !.upper_bound = upper,
                 !.is_anomaly = ~(Greater(r.temperature, lower) /\ Less(r.temperature, upper))]

AnomalyRow(r) ==
    LET lower == Band(r.moving_mean, -2, r.moving_std)
        upper == Band(r.moving_mean, 2, r.moving_std)
    IN [r EXCEPT !.lower_bound = lower, !.upper_bound = upper,
                 !.is_anomaly = Less(r.temperature, lower) \/ Greater(r.temperature, upper)]

Anomalies(frame) == [pos \in 1..Len(frame) |-> AnomalyRow(frame[pos])]

\* ------------------------------------------------------------ trend

RECURSIVE SumProd(_, _)
SumProd(xs, ys) ==
    IF xs = <<>> THEN 0 ELSE Head(xs) * Head(ys) + SumProd(Tail(xs), Tail(ys))

\* city_df['days'] = (timestamp - timestamp.min()).dt.days
DaysOf(frame, city) ==
    LET ts == Column(frame, city, "timestamp")
        first == CHOOSE d \in {ts[k] : k \in DOMAIN ts} : \A k \in DOMAIN ts : d <= ts[k]
    IN Eager([k \in DOMAIN ts |-> ts[k] - first])

\* n*Sxx, n*Sxy, n*Syy of the regression, as integers
Sxx(xs) == Len(xs) * SumSq(xs) - Sum(xs) * Sum(xs)
Sxy(xs, ys) == Len(xs) * SumProd(xs, ys) - Sum(xs) * Sum(ys)

\* All x values identical (a single reading included)
Degenerate(xs) == Sxx(xs) = 0

\* stats.linregress(x, y) on identical x values with more than one point: SciPy
\* releases that check for it raise ValueError; the others divide 0 by 0
LinregressRaises(xs, raising) == raising /\ Degenerate(xs) /\ Len(xs) > 1

\* stats.linregress(x, y) when it returns: slope = Sxy/Sxx, NaN when Sxx = 0 (0/0).
\* r_value and p_value are not computed here: SomeNumber where SciPy gives a
\* number, NaN where it gives NaN (the p-value of a single point).
Linregress(xs, ys) ==
    [slope |-> IF Degenerate(xs) THEN NaN ELSE [num |-> Sxy(xs, ys), den |-> Sxx(xs)],
     r_value |-> SomeNumber,
     p_value |-> IF Len(xs) = 1 THEN NaN ELSE SomeNumber]

\* slope * days + intercept with intercept = mean(y) - slope * mean(x):
\* (slope.num * (n*x - Sum(xs)) + slope.den * Sum(ys)) / (n * slope.den)
Fitted(xs, ys) ==
    LET fit == Linregress(xs, ys)
        sx == Sum(xs)
        sy == Sum(ys)
    IN Eager([k \in DOMAIN xs |->
          IF fit.slope = NaN THEN NaN
          ELSE [num |-> fit.slope.num * (Len(xs) * xs[k] - sx) + fit.slope.den * sy,
                den |-> Len(xs) * fit.slope.den]])

TrendOfCity(frame, city) ==
    Linregress(DaysOf(frame, city), Column(frame, city, "temperature"))

\* The loop of calc_trend over the frame; it stops at the city whose regression raises
RECURSIVE TrendLoop(_, _, _)
TrendLoop(frame, todo, raising) ==
    IF todo = <<>> THEN [frame |-> frame, raised |-> FALSE]
    ELSE IF LinregressRaises(DaysOf(frame, Head(todo)), raising)
         THEN [frame |-> frame, raised |-> TRUE]
         ELSE TrendLoop(SetPositional(frame, Head(todo), "trend",
                            Fitted(DaysOf(frame, Head(todo)),
                                   Column(frame, Head(todo), "temperature"))),
                        Tail(todo), raising)

UniqueSet(frame) == {frame[pos].city : pos \in DOMAIN frame}

\* ------------------------------------------------------------ the analysis run

Pending == [pending |-> TRUE]
NoValue == [novalue |-> TRUE]

\* The half of the state a run does not use
LiveIdle ==
    /\ lpath = "off" /\ lpc = "off" /\ hist = <<>> /\ month = 1 /\ cities = <<>>
    /\ response = <<>> /\ has_key = FALSE /\ results_sync = <<>> /\ slots = <<>>
    /\ completed = <<>> /\ results_async = <<>> /\ current = NoValue /\ checked = 0
    /\ verdicts = <<>> /\ log = <<>> /\ screen = <<>>

AnalysisIdle ==
    /\ window = WINDOW_SIZE /\ path = "off" /\ pc = "off" /\ csv = <<>> /\ df = <<>>
    /\ df_seq = <<>> /\ df_par = <<>> /\ results = <<>> /\ merged = {}
    /\ trends = NoValue /\ given = <<>>


InitAnalysis ==
    /\ LiveIdle
    /\ window \in Windows
    /\ path \in {"script", "dashboard"}
    /\ csv \in CsvFiles(window)
    /\ pc = "load"
    /\ df = <<>>
    /\ df_seq = <<>>
    /\ df_par = <<>>
    /\ results = <<>>
    /\ merged = {}
    /\ trends = NoValue
    /\ given = <<>>

\* analysis.py: df = read_csv(DATA_PATH)
ReadCsv ==
    /\ pc = "load"
    /\ path = "script"
    /\ LET frame == ReadFrame(csv)
       IN \E order \in SortedOrders(frame, DOMAIN frame) : df' = Reorder(frame, order)
    /\ given' = df'
    /\ pc' = "seq"
    /\ UNCHANGED <<lvars, window, path, csv, df_seq, df_par, results, merged, trends>>

\* app.py: df = pd.read_csv(uploaded_file); df['timestamp'] = pd.to_datetime(...)
AppLoad ==
    /\ pc = "load"
    /\ path = "dashboard"
    /\ df' = ReadFrame(csv)
    /\ given' = df'
    /\ pc' = "seq"
    /\ UNCHANGED <<lvars, window, path, csv, df_seq, df_par, results, merged, trends>>

\* calc_moving_avg(df, parallel=False): on a copy in the script, which then builds
\* the pool's tasks from a second copy; on df itself in the dashboard
CalcMovingAvgSequential ==
    /\ pc = "seq"
    /\ df_seq' = MovingSequential(df, window)
    /\ IF path = "script"
       THEN /\ df_par' = df
            /\ results' = [c \in UniqueSet(df) |-> Pending]
            /\ pc' = "pool"
            /\ df' = df
       ELSE /\ df' = df_seq'
            /\ pc' = "anomalies"
            /\ UNCHANGED <<df_par, results>>
    /\ UNCHANGED <<lvars, window, path, csv, merged, trends, given>>

\* pool.map(calc_city_moving, ...): the workers finish in any order; map returns
\* when all have
PoolWorker(city) ==
    /\ pc = "pool"
    /\ city \in DOMAIN results
    /\ results[city] = Pending
    /\ results' = [results EXCEPT ![city] = CalcCityMoving(df_par, city, window)]
    /\ pc' = IF \A c \in DOMAIN results : results'[c] # Pending THEN "merge" ELSE "pool"
    /\ UNCHANGED <<lvars, window, path, csv, df, df_seq, df_par, merged, trends, given>>

\* The merge loop of calc_moving_avg(df, parallel=True), one result per step and in
\* any order of the results (the code's order, that of the cities, is one of them);
\* after the last one the script goes on with df = df_par
MergeResult(city) ==
    /\ pc = "merge"
    /\ city \in DOMAIN results \ merged
    /\ df_par' = MergeOfCity(df_par, city, results[city])
    /\ merged' = merged \cup {city}
    /\ IF merged' = DOMAIN results
       THEN pc' = "anomalies" /\ df' = df_par'
       ELSE pc' = "merge" /\ df' = df
    /\ UNCHANGED <<lvars, window, path, csv, df_seq, results, trends, given>>

\* df = calc_anomalies(df)
CalcAnomalies ==
    /\ pc = "anomalies"
    /\ df' = Anomalies(df)
    /\ pc' = "trend"
    /\ UNCHANGED <<lvars, window, path, csv, df_seq, df_par, results, merged, trends, given>>

\* trends = calc_trend(df): returns the dict, or is left by the exception of
\* linregress, which nothing catches
CalcTrend ==
    /\ pc = "trend"
    /\ \E raising \in BOOLEAN :
          LET out == TrendLoop(df, Unique(df, {}), raising)
          IN /\ df' = out.frame
             /\ trends' = IF out.raised THEN NoValue
                          ELSE [c \in UniqueSet(df) |-> TrendOfCity(df, c)]
             /\ pc' = IF out.raised THEN "crashed" ELSE "done"
    /\ UNCHANGED <<lvars, window, path, csv, df_seq, df_par, results, merged, given>>

NextAnalysis ==
    \/ ReadCsv
    \/ AppLoad
    \/ CalcMovingAvgSequential
    \/ \E city \in Cities : PoolWorker(city)
    \/ \E city \in Cities : MergeResult(city)
    \/ CalcAnomalies
    \/ CalcTrend

\* ------------------------------------------------------------ properties of the analysis run

Moved == pc \notin {"load", "seq"}                      \* calc_moving_avg(parallel=False) returned
MergedAll == pc \in {"anomalies", "trend", "done", "crashed"}
Classified == pc \in {"trend", "done", "crashed"}       \* calc_anomalies returned

Present(v) == v # NaN /\ v # NoCol

\* The city's temperatures in the order of the frame handed to calc_moving_avg
SeriesOf(city) == Column(given, city, "temperature")

\* C1: once a city's worker result is merged, in whatever order the results are
\* merged, each of its rows holds the moving_mean and moving_std the sequential
\* strategy computed for that row, absent where it is absent there.
C1_ParallelEqualsSequential ==
    path = "script" /\ pc \in {"merge", "anomalies", "trend", "done", "crashed"} =>
        \A pos \in DOMAIN df_par :
            df_par[pos].city \in merged =>
                /\ df_par[pos].idx = df_seq[pos].idx
                /\ df_par[pos].moving_mean = df_seq[pos].moving_mean
                /\ df_par[pos].moving_std = df_seq[pos].moving_std

\* C1 witness: both strategies have run, with the window of 30, on a frame whose
\* cities' rows are interleaved; one city has rows with statistics, both have rows
\* without
C1_Witness ==
    /\ path = "script" /\ pc = "anomalies" /\ window = WINDOW_SIZE
    /\ \E a, b, c \in DOMAIN df_par :
          a < b /\ b < c /\ df_par[a].city = df_par[c].city /\ df_par[a].city # df_par[b].city
    /\ \E pos \in DOMAIN df_par : Present(df_par[pos].moving_mean)
    /\ \A city \in Cities :
          \E pos \in DOMAIN df_par : df_par[pos].city = city /\ df_par[pos].moving_std = NaN

\* The rolling statistics of `frame` are those of the window reaching `before`
\* readings back and `after` readings ahead, present exactly where it fits the series
WindowedBy(frame, before, after) ==
    \A city \in UniqueSet(frame) :
        LET xs == SeriesOf(city)
            mask == Mask(frame, city)
        IN \A k \in DOMAIN mask :
              LET inside == k - before >= 1 /\ k + after <= Len(xs)
                  row == frame[mask[k]]
              IN /\ Present(row.moving_mean) <=> inside
                 /\ Present(row.moving_std) <=> inside
                 /\ inside =>
                      /\ row.moving_mean = Mean(SubSeq(xs, k - before, k + after))
                      /\ row.moving_std = Std(SubSeq(xs, k - before, k + after))

\* C2 as stated, at the program's window of 30: the window of position i is
\* i - floor(W/2) .. i + floor(W/2), and the statistics are present exactly where
\* that range lies inside the series.
C2_Original ==
    Moved /\ window = WINDOW_SIZE => WindowedBy(df_seq, window \div 2, window \div 2)

\* C2 amended: for W >= 2 the window of position i is the W positions
\* i - floor(W/2) .. i + floor((W-1)/2); moving_mean and moving_std are present
\* exactly where that range lies inside the series, so they are absent at the first
\* floor(W/2) and the last floor((W-1)/2) positions (everywhere in a series shorter
\* than W), under either strategy.
C2_CenteredWindow ==
    /\ Moved => WindowedBy(df_seq, window \div 2, (window - 1) \div 2)
    /\ path = "script" /\ MergedAll =>
          WindowedBy(df_par, window \div 2, (window - 1) \div 2)

\* C2 witness: with the window of 30 a series of 31 readings has its statistics
\* at the 16th and at the 17th reading and nowhere else
C2_Witness ==
    /\ Moved /\ window = WINDOW_SIZE
    /\ LET mask == Mask(df_seq, Long)
       IN /\ Len(mask) = WINDOW_SIZE + 1
          /\ Present(df_seq[mask[16]].moving_mean)
          /\ Present(df_seq[mask[17]].moving_std)
          /\ df_seq[mask[15]].moving_mean = NaN
          /\ df_seq[mask[18]].moving_mean = NaN

\* (temperature - moving_mean)^2 > (2 * moving_std)^2, cross-multiplied
OutsideTwoSigma(row) ==
    LET d == row.temperature * row.moving_mean.den - row.moving_mean.num
    IN d * d * row.moving_std.varden
         > 4 * row.moving_std.varnum * row.moving_mean.den * row.moving_mean.den

\* temperature = moving_mean - 2 * moving_std or = moving_mean + 2 * moving_std
OnBound(row) ==
    LET d == row.temperature * row.moving_mean.den - row.moving_mean.num
    IN d * d * row.moving_std.varden
         = 4 * row.moving_std.varnum * row.moving_mean.den * row.moving_mean.den

\* C3: after calc_anomalies a row is flagged exactly when its rolling statistics
\* are present and its temperature is more than two standard deviations away from
\* the moving mean; a temperature on a bound is not flagged, a row without
\* statistics has no bounds and is not flagged.
C3_AnomalyFlag ==
    Classified =>
        \A pos \in DOMAIN df :
            LET row == df[pos]
                defined == row.moving_mean # NaN /\ row.moving_std # NaN
            IN /\ row.is_anomaly = (defined /\ OutsideTwoSigma(row))
               /\ defined /\ OnBound(row) => row.is_anomaly = FALSE
               /\ ~defined => /\ row.is_anomaly = FALSE
                              /\ row.lower_bound = NaN
                              /\ row.upper_bound = NaN
               /\ defined => /\ row.lower_bound = [mean |-> row.moving_mean, k |-> -2,
                                                   std |-> row.moving_std]
                             /\ row.upper_bound = [mean |-> row.moving_mean, k |-> 2,
                                                   std |-> row.moving_std]

\* C3 witness: a classified frame with a flagged row, a row inside its band and a
\* row without statistics
C3_Witness ==
    /\ Classified
    /\ \E pos \in DOMAIN df : df[pos].is_anomaly = TRUE
    /\ \E pos \in DOMAIN df : df[pos].lower_bound # NaN /\ df[pos].is_anomaly = FALSE
    /\ \E pos \in DOMAIN df : df[pos].lower_bound = NaN /\ df[pos].is_anomaly = FALSE

\* A classified row whose temperature sits exactly on its bound
C3_OnBoundReached ==
    Classified /\ \E pos \in DOMAIN df : df[pos].moving_std # NaN /\ OnBound(df[pos])

\* The city's regression input is degenerate: all its readings on one day
DegenerateCity(city) == Degenerate(DaysOf(df, city))

\* C9 (at the program's window of 30, which calc_trend does not read): when a city
\* of the batch has a degenerate regression input, calc_trend
\* still returns; that city's slope is undefined, and every other city has its
\* slope, r and p-value and its fitted trend in every row.
C9_DegenerateCityIsolated ==
    pc \in {"done", "crashed"} /\ window = WINDOW_SIZE /\ (\E city \in UniqueSet(df) : DegenerateCity(city)) =>
        /\ pc = "done"
        /\ trends # NoValue
        /\ \A city \in UniqueSet(df) :
              IF DegenerateCity(city)
              THEN trends[city].slope = NaN
              ELSE /\ trends[city].slope # NaN
                   /\ trends[city].r_value = SomeNumber
                   /\ trends[city].p_value = SomeNumber
                   /\ \A pos \in DOMAIN df :
                         df[pos].city = city => Present(df[pos].trend)

\* C10 (at the program's window of 30): the frame handed to calc_moving_avg is
\* sorted by timestamp on every path, and calc_moving_avg returns the rows in the
\* order it was given them.
C10_SortedBeforeWindow ==
    pc # "load" /\ window = WINDOW_SIZE =>
        /\ \A i, j \in DOMAIN given : i < j => given[i].timestamp <= given[j].timestamp
        /\ Moved => /\ Len(df_seq) = Len(given)
                    /\ \A pos \in DOMAIN given :
                          /\ df_seq[pos].idx = given[pos].idx
                          /\ df_seq[pos].city = given[pos].city
                          /\ df_seq[pos].timestamp = given[pos].timestamp
                          /\ df_seq[pos].temperature = given[pos].temperature

\* ------------------------------------------------------------ the live check

MaxCities == 2                \* the batch holds 1..MaxCities cities
CITIES_TO_CHECK == <<"Berlin", "Cairo", "Dubai", "Beijing", "Moscow", "Rio de Janeiro">>
Seasons == {"winter", "spring", "summer", "autumn"}
Months == 1..12
LiveTemps == {5, 16, 36}

None == [none |-> TRUE]

\* The history's readings of Berlin in winter are one of these; the last gives
\* mean 23 and standard deviation 3.5
BerlinWinter == {<<>>, <<5>>, <<5, 5>>, <<4, 8>>, <<16, 30, 23, 23, 23, 23, 23, 23, 23>>}

RowsOf(city, season, temps) ==
    [k \in 1..Len(temps) |-> [city |-> city, season |-> season, temperature |-> temps[k]]]

\* Berlin: winter as chosen, summer two readings; Cairo: winter two equal readings
\* (the first and the last row), summer a single one; nothing else
History(temps) ==
    RowsOf("Cairo", "winter", <<20>>) \o RowsOf("Berlin", "winter", temps)
        \o RowsOf("Cairo", "summer", <<30>>) \o RowsOf("Berlin", "summer", <<25, 27>>)
        \o RowsOf("Cairo", "winter", <<20>>)

\* What the API can answer: a reading, or one of three failures
Outcomes ==
    {[kind |-> "ok", temp |-> t, feels_like |-> t - 1, description |-> "clear sky"] :
        t \in LiveTemps}
    \cup {[kind |-> k] : k \in {"unauthorized", "network", "malformed"}}

Elements(seq) == {seq[i] : i \in DOMAIN seq}

\* Mutant: a body without the fields yields a reading without a temperature
\* (data.get(...) in place of data[...]) instead of None
GetCurrentTempPartial(city, resp) ==
    IF resp.kind \in {"network", "unauthorized"} THEN None
    ELSE IF resp.kind = "malformed" THEN [city |-> city]
    ELSE [city |-> city, temperature |-> resp.temp, feels_like |-> resp.feels_like,
          description |-> resp.description]

\* get_current_temp: requests.get raises on a network error, raise_for_status on an
\* HTTP error status, data['main']['temp'] on a body without the fields; the
\* except clause turns each into None
GetCurrentTemp(city, resp) ==
    IF resp.kind \in {"network", "unauthorized", "malformed"} THEN None
    ELSE [city |-> city, temperature |-> resp.temp, feels_like |-> resp.feels_like,
          description |-> resp.description]

\* Mutant: the except clause returns a default reading instead of None
GetCurrentTempAsyncDefault(city, resp) ==
    IF resp.kind \in {"network", "unauthorized", "malformed"}
    THEN [city |-> city, temperature |-> 0, feels_like |-> 0, description |-> ""]
    ELSE [city |-> city, temperature |-> resp.temp, feels_like |-> resp.feels_like,
          description |-> resp.description]

\* get_current_temp_async: the same with session.get
GetCurrentTempAsync(city, resp) ==
    IF resp.kind \in {"network", "unauthorized", "malformed"} THEN None
    ELSE [city |-> city, temperature |-> resp.temp, feels_like |-> resp.feels_like,
          description |-> resp.description]

\* logger.error(f"Error fetching weather for {city}: {e}") in the except clause
FetchLog(city, resp) ==
    IF resp.kind \in {"network", "unauthorized", "malformed"}
    THEN <<[level |-> "ERROR", text |-> "Error fetching weather for", city |-> city]>>
    ELSE <<>>

\* Mutant: the results in the order the tasks finished (asyncio.as_completed)
GatherAsCompleted(slotsNow, order) == [k \in DOMAIN order |-> slotsNow[order[k]]]

\* asyncio.gather(*tasks): the results in the order of the tasks
Gather(slotsNow, order) == [i \in DOMAIN slotsNow |-> slotsNow[i]]

\* city_season['temperature'] for df[(df['city'] == city) & (df['season'] == season)]
RECURSIVE SelectTemps(_, _, _)
SelectTemps(frame, city, season) ==
    IF frame = <<>> THEN <<>>
    ELSE IF Head(frame).city = city /\ Head(frame).season = season
         THEN <<Head(frame).temperature>> \o SelectTemps(Tail(frame), city, season)
         ELSE SelectTemps(Tail(frame), city, season)

\* get_season_stats
GetSeasonStats(frame, city, season) ==
    LET temps == SelectTemps(frame, city, season)
    IN [mean |-> Mean(temps), std |-> Std(temps),
        lower |-> Band(Mean(temps), -2, Std(temps)),
        upper |-> Band(Mean(temps), 2, Std(temps))]

\* abs(current_temp - stats['mean'])
Deviation(t, mean) ==
    IF mean = NaN THEN NaN ELSE [num |-> Abs(t * mean.den - mean.num), den |-> mean.den]

\* Mutant: <= and >= in place of < and >
CheckAnomalyInclusive(t, stats) ==
    LET low == stats.lower # NaN /\ ~Greater(t, stats.lower)
        high == stats.upper # NaN /\ ~Less(t, stats.upper)
    IN [is_anomaly |-> low \/ high,
        status |-> IF low THEN "colder than normal"
                   ELSE IF high THEN "warmer than normal"
                   ELSE "within normal range",
        deviation |-> Deviation(t, stats.mean)]

\* check_anomaly
CheckAnomaly(t, stats) ==
    [is_anomaly |-> Less(t, stats.lower) \/ Greater(t, stats.upper),
     status |-> IF Less(t, stats.lower) THEN "colder than normal"
                ELSE IF Greater(t, stats.upper) THEN "warmer than normal"
                ELSE "within normal range",
     deviation |-> Deviation(t, stats.mean)]

\* get_current_season
GetCurrentSeason(m) ==
    IF m \in {12, 1, 2} THEN "winter"
    ELSE IF m \in {3, 4, 5} THEN "spring"
    ELSE IF m \in {6, 7, 8} THEN "summer"
    ELSE "autumn"

\* `if current:` -- None is falsy, a reading (a non-empty dict) is truthy
Truthy(value) == value # None

InitLive ==
    /\ AnalysisIdle
    /\ lpath \in {"monitor", "dashboard"}
    /\ month \in Months
    /\ hist \in {History(temps) : temps \in BerlinWinter}
    /\ cities \in IF lpath = "monitor"
                  THEN {SubSeq(CITIES_TO_CHECK, 1, n) : n \in 1..MaxCities}
                  ELSE {<<city>> : city \in {row.city : row \in Elements(hist)}}
    /\ response \in [Elements(cities) -> Outcomes]
    /\ has_key \in IF lpath = "monitor" THEN {TRUE} ELSE BOOLEAN
    /\ lpc = IF lpath = "monitor" THEN "sync" ELSE "weather"
    /\ results_sync = <<>>
    /\ slots = <<>>
    /\ completed = <<>>
    /\ results_async = <<>>
    /\ current = NoValue
    /\ checked = 0
    /\ verdicts = <<>>
    /\ log = <<>>
    /\ screen = <<>>

\* One turn of the list comprehension of fetch_all_temps_sync; after the last one
\* fetch_all_temps_async creates its tasks
SyncRequest ==
    /\ lpc = "sync"
    /\ LET city == cities[Len(results_sync) + 1]
       IN /\ results_sync' = Append(results_sync, GetCurrentTemp(city, response[city]))
          /\ log' = log \o FetchLog(city, response[city])
    /\ IF Len(results_sync') = Len(cities)
       THEN lpc' = "async" /\ slots' = [i \in DOMAIN cities |-> Pending]
       ELSE lpc' = "sync" /\ slots' = slots
    /\ UNCHANGED <<avars, lpath, hist, month, cities, response, has_key, completed,
                   results_async, current, checked, verdicts, screen>>

\* One task of fetch_all_temps_async finishes, in any order; gather returns with
\* the last one
AsyncComplete(i) ==
    /\ lpc = "async"
    /\ i \in DOMAIN slots
    /\ slots[i] = Pending
    /\ slots' = [slots EXCEPT ![i] = GetCurrentTempAsync(cities[i], response[cities[i]])]
    /\ completed' = Append(completed, i)
    /\ log' = log \o FetchLog(cities[i], response[cities[i]])
    /\ IF \A j \in DOMAIN slots : slots'[j] # Pending
       THEN lpc' = "check" /\ results_async' = Gather(slots', completed')
       ELSE lpc' = "async" /\ results_async' = results_async
    /\ UNCHANGED <<avars, lpath, hist, month, cities, response, has_key, results_sync,
                   current, checked, verdicts, screen>>

\* One turn of the anomaly-check loop of weather_monitor.py
CheckNext ==
    /\ lpc = "check"
    /\ checked' = checked + 1
    /\ LET reading == results_async[checked + 1]
       IN IF Truthy(reading)
          THEN LET stats == GetSeasonStats(hist, reading.city, GetCurrentSeason(month))
                   result == CheckAnomaly(reading.temperature, stats)
               IN /\ verdicts' = Append(verdicts,
                        [task |-> checked + 1, city |-> reading.city,
                         temperature |-> reading.temperature,
                         stats |-> stats, result |-> result])
                  /\ log' = log \o <<[level |-> "INFO", text |-> result.status,
                                      city |-> reading.city]>>
                              \o (IF result.is_anomaly
                                  THEN <<[level |-> "WARNING", text |-> "Anomaly!",
                                          city |-> reading.city]>>
                                  ELSE <<>>)
          ELSE UNCHANGED <<verdicts, log>>
    /\ lpc' = IF checked' = Len(results_async) THEN "done" ELSE "check"
    /\ UNCHANGED <<avars, lpath, hist, month, cities, response, has_key, results_sync, slots,
                   completed, results_async, current, screen>>

\* app.py: no API key entered
DashNoKey ==
    /\ lpc = "weather"
    /\ ~has_key
    /\ screen' = <<[kind |-> "info",
                    text |-> "Enter API key in sidebar to see current weather"]>>
    /\ lpc' = "stopped"
    /\ UNCHANGED <<avars, lpath, hist, month, cities, response, has_key, results_sync, slots,
                   completed, results_async, current, checked, verdicts, log>>

\* app.py: current = get_current_temp(selected_city, api_key)
DashFetch ==
    /\ lpc = "weather"
    /\ has_key
    /\ current' = GetCurrentTemp(cities[1], response[cities[1]])
    /\ log' = log \o FetchLog(cities[1], response[cities[1]])
    /\ lpc' = "fetched"
    /\ UNCHANGED <<avars, lpath, hist, month, cities, response, has_key, results_sync, slots,
                   completed, results_async, checked, verdicts, screen>>

\* app.py: what the current-weather block puts on the page for the value
\* get_current_temp returned
DashScreen(cur, frame, city, m) ==
    IF ~Truthy(cur) \/ "temperature" \notin DOMAIN cur
    THEN <<[kind |-> "error", text |-> "Invalid API key. Please check your key."]>>
    ELSE LET stats == GetSeasonStats(frame, city, GetCurrentSeason(m))
             result == CheckAnomaly(cur.temperature, stats)
         IN <<[kind |-> "metric", text |-> "Current Temp"],
              [kind |-> "info", text |-> "Historical Range"],
              [kind |-> IF result.is_anomaly THEN "error" ELSE "success",
               text |-> result.status]>>

\* app.py: the rest of the current-weather block
DashShow ==
    /\ lpc = "fetched"
    /\ screen' = DashScreen(current, hist, cities[1], month)
    /\ IF ~Truthy(current) \/ "temperature" \notin DOMAIN current
       THEN /\ lpc' = "stopped"
            /\ UNCHANGED verdicts
       ELSE LET stats == GetSeasonStats(hist, cities[1], GetCurrentSeason(month))
                result == CheckAnomaly(current.temperature, stats)
            IN /\ verdicts' = <<[task |-> 1, city |-> cities[1],
                                 temperature |-> current.temperature,
                                 stats |-> stats, result |-> result]>>
               /\ lpc' = "done"
    /\ UNCHANGED <<avars, lpath, hist, month, cities, response, has_key, results_sync, slots,
                   completed, results_async, current, checked, log>>

NextLive ==
    \/ SyncRequest
    \/ \E i \in 1..MaxCities : AsyncComplete(i)
    \/ CheckNext
    \/ DashNoKey
    \/ DashFetch
    \/ DashShow

\* ------------------------------------------------------------ specifications

vars == <<avars, lvars>>

\* The analysis run (analysis.py __main__, and the dashboard's use of it)
SpecAnalysis == InitAnalysis /\ [][NextAnalysis]_vars

\* The live check (weather_monitor.py __main__, and the dashboard's block)
SpecLive == InitLive /\ [][NextLive]_vars

\* Every request ends, with a response or with an exception: the list comprehension
\* of fetch_all_temps_sync goes on to its next request and the event loop resumes a
\* task whose response has come
SpecLiveFair ==
    /\ SpecLive
    /\ WF_vars(SyncRequest)
    /\ WF_vars(\E i \in 1..MaxCities : AsyncComplete(i))

\* ------------------------------------------------------------ properties of the live check

Season == GetCurrentSeason(month)
Failed(i) == response[cities[i]].kind # "ok"

\* t < mean - 2*std and t > mean + 2*std for a baseline whose std is defined
BelowBand(t, stats) ==
    /\ stats.mean # NaN /\ stats.std # NaN
    /\ t * stats.mean.den < stats.mean.num
    /\ (t * stats.mean.den - stats.mean.num) * (t * stats.mean.den - stats.mean.num)
          * stats.std.varden > 4 * stats.std.varnum * stats.mean.den * stats.mean.den

AboveBand(t, stats) ==
    /\ stats.mean # NaN /\ stats.std # NaN
    /\ t * stats.mean.den > stats.mean.num
    /\ (t * stats.mean.den - stats.mean.num) * (t * stats.mean.den - stats.mean.num)
          * stats.std.varden > 4 * stats.std.varnum * stats.mean.den * stats.mean.den

\* dev = |t - mean|
IsDeviation(dev, t, mean) ==
    IF mean = NaN THEN dev = NaN
    ELSE /\ dev # NaN /\ dev.num >= 0 /\ dev.den > 0
         /\ dev.num * dev.num * mean.den * mean.den
              = (t * mean.den - mean.num) * (t * mean.den - mean.num) * dev.den * dev.den

\* C4: every verdict of check_anomaly has status colder exactly when t < lower,
\* warmer exactly when t > upper and within normal range otherwise (t on a bound
\* and an undefined band included); is_anomaly holds exactly when the status is not
\* within normal range; deviation is |t - mean|.
C4_CheckAnomaly ==
    \A k \in DOMAIN verdicts :
        LET v == verdicts[k]
        IN /\ v.result.status = "colder than normal" <=> BelowBand(v.temperature, v.stats)
           /\ v.result.status = "warmer than normal" <=> AboveBand(v.temperature, v.stats)
           /\ v.result.status = "within normal range" <=>
                 ~BelowBand(v.temperature, v.stats) /\ ~AboveBand(v.temperature, v.stats)
           /\ v.result.is_anomaly = (v.result.status # "within normal range")
           /\ IsDeviation(v.result.deviation, v.temperature, v.stats.mean)
           /\ v.stats.std # NaN =>
                 /\ v.stats.lower = [mean |-> v.stats.mean, k |-> -2, std |-> v.stats.std]
                 /\ v.stats.upper = [mean |-> v.stats.mean, k |-> 2, std |-> v.stats.std]
           /\ v.stats.std = NaN => v.stats.lower = NaN /\ v.stats.upper = NaN

\* C4 witness: 36 degrees against mean 23 and standard deviation 3.5 (band 16..30)
\* is an anomaly, warmer than normal, with deviation 13
C4_Witness ==
    \E k \in DOMAIN verdicts :
        LET v == verdicts[k]
        IN /\ v.temperature = 36
           /\ v.stats.mean # NaN /\ v.stats.std # NaN
           /\ v.stats.mean.num = 23 * v.stats.mean.den
           /\ 4 * v.stats.std.varnum = 49 * v.stats.std.varden
           /\ v.result.is_anomaly = TRUE
           /\ v.result.status = "warmer than normal"
           /\ v.result.deviation.num = 13 * v.result.deviation.den

\* A verdict for a temperature exactly on the lower bound (16 against the band 16..30)
C4_OnBoundReached ==
    \E k \in DOMAIN verdicts :
        LET v == verdicts[k]
        IN /\ v.temperature = 16
           /\ v.stats.mean # NaN /\ v.stats.std # NaN
           /\ v.stats.mean.num = 23 * v.stats.mean.den
           /\ 4 * v.stats.std.varnum = 49 * v.stats.std.varden
           /\ v.result.status = "within normal range"

\* C5: with a single historical reading for (city, current season) the live check
\* never answers "not an anomaly, within normal range".
C5_SingleReadingUnavailable ==
    \A k \in DOMAIN verdicts :
        Len(SelectTemps(hist, verdicts[k].city, Season)) = 1 =>
            ~(verdicts[k].result.is_anomaly = FALSE
              /\ verdicts[k].result.status = "within normal range")

\* The fetch of cities[i] has been made
SyncFetched(i) == i <= Len(results_sync)
AsyncFetched(i) == i \in DOMAIN slots /\ slots[i] # Pending
DashFetched == lpath = "dashboard" /\ lpc \in {"fetched", "stopped", "done"} /\ has_key

ErrorLogged(city) ==
    \E k \in DOMAIN log : log[k].level = "ERROR" /\ log[k].city = city

\* C6: a city whose fetch failed gets no verdict (check_anomaly is not called for
\* it and no status is logged or shown); the failure is reported: an error in the
\* log and, in the dashboard, an error message in place of the status.
C6_NoVerdictForFailedFetch ==
    \A i \in DOMAIN cities :
        Failed(i) =>
            /\ \A k \in DOMAIN verdicts : verdicts[k].task # i
            /\ \A k \in DOMAIN log : log[k].city = cities[i] => log[k].level = "ERROR"
            /\ SyncFetched(i) \/ AsyncFetched(i) \/ DashFetched => ErrorLogged(cities[i])
            /\ lpath = "monitor" /\ lpc \in {"check", "done"} => results_async[i] = None
            /\ DashFetched /\ lpc # "fetched" =>
                  /\ lpc = "stopped"
                  /\ \E k \in DOMAIN screen : screen[k].kind = "error"
                  /\ \A k \in DOMAIN screen :
                        screen[k].text \notin {"colder than normal", "warmer than normal",
                                               "within normal range"}

\* C6 witness: the monitor's check loop has ended after a batch with a failed and a
\* successful fetch, the successful one with its verdict
C6_Witness ==
    /\ lpath = "monitor" /\ lpc = "done"
    /\ \E i, j \in DOMAIN cities :
          /\ Failed(i) /\ response[cities[i]].kind = "unauthorized"
          /\ ~Failed(j) /\ \E k \in DOMAIN verdicts : verdicts[k].task = j

\* The entry a fetch of cities[i] is to leave: its reading, None if it failed
IsEntryOf(entry, i) ==
    IF Failed(i) THEN entry = None
    ELSE entry = [city |-> cities[i], temperature |-> response[cities[i]].temp,
                  feels_like |-> response[cities[i]].feels_like,
                  description |-> response[cities[i]].description]

\* Every entry made so far is the one its own city is to get, and a returned batch
\* has one entry per city
C7_Entries ==
    /\ \A i \in DOMAIN results_sync : IsEntryOf(results_sync[i], i)
    /\ \A i \in DOMAIN slots : slots[i] # Pending => IsEntryOf(slots[i], i)
    /\ Len(results_sync) <= Len(cities)
    /\ lpc \in {"async", "check", "done"} /\ lpath = "monitor" =>
          Len(results_sync) = Len(cities)
    /\ lpc \in {"check", "done"} /\ lpath = "monitor" =>
          /\ Len(results_async) = Len(cities)
          /\ \A i \in DOMAIN cities : IsEntryOf(results_async[i], i)

BatchesReturned ==
    /\ lpc \in {"check", "done"}
    /\ Len(results_sync) = Len(cities)
    /\ Len(results_async) = Len(cities)

\* C7: both fetch_all_temps_sync and fetch_all_temps_async run to their end
\* whichever requests fail, and return one entry per city, None for a failed city
\* and the reading for a successful one; an entry once made is what it is whatever
\* happens to the other cities.
C7_BatchToleratesFailures ==
    /\ []C7_Entries
    /\ (lpath = "monitor") ~> BatchesReturned

\* C7 witness: both batches returned, with a city that failed and one that did not
C7_Witness ==
    /\ lpath = "monitor" /\ lpc = "check"
    /\ Len(results_sync) = Len(cities) /\ Len(results_async) = Len(cities)
    /\ \E i, j \in DOMAIN cities : Failed(i) /\ ~Failed(j) /\ i < j

\* C8: in whatever order the requests finish, every reading fetch_all_temps_async
\* returns carries the city of its own request, the list equals that of
\* fetch_all_temps_sync, and each verdict is made against the baseline of the
\* reading's own city.
C8_ReadingsKeepTheirCity ==
    /\ \A i \in DOMAIN slots :
          slots[i] # Pending /\ slots[i] # None => slots[i].city = cities[i]
    /\ lpath = "monitor" /\ lpc \in {"check", "done"} =>
          /\ results_async = results_sync
          /\ \A i \in DOMAIN cities :
                results_async[i] # None =>
                    /\ results_async[i].city = cities[i]
                    /\ results_async[i].temperature = response[cities[i]].temp
          /\ \A k \in DOMAIN verdicts :
                /\ verdicts[k].city = cities[verdicts[k].task]
                /\ verdicts[k].temperature = response[cities[verdicts[k].task]].temp
                /\ verdicts[k].stats.mean
                     = Mean(SelectTemps(hist, cities[verdicts[k].task], Season))
                /\ verdicts[k].stats.std
                     = Std(SelectTemps(hist, cities[verdicts[k].task], Season))

\* C8 witness: the second request finished first, both readings arrived with
\* different temperatures, and both were checked
C8_Witness ==
    /\ lpath = "monitor" /\ lpc = "done"
    /\ Len(completed) >= 2 /\ completed[1] = 2
    /\ results_async[1] # None /\ results_async[2] # None
    /\ results_async[1].temperature # results_async[2].temperature
    /\ Len(verdicts) >= 2

\* The cause of a failure of the live path: the credential was rejected, the network
\* was unavailable, or the reading came but (city, season) has fewer than two
\* historical readings; "none" otherwise
CauseOf(resp, frame, city, m) ==
    IF resp.kind = "unauthorized" THEN "credential"
    ELSE IF resp.kind = "network" THEN "network"
    ELSE IF resp.kind = "ok" /\ Len(SelectTemps(frame, city, GetCurrentSeason(m))) < 2
         THEN "baseline"
    ELSE "none"

\* What the user is told: get_current_temp's result and the dashboard's page
Reported(resp, frame, city, m) ==
    LET cur == GetCurrentTemp(city, resp)
    IN [result |-> cur, message |-> DashScreen(cur, frame, city, m)]

\* C11: the three failure causes of the live path (credential rejected, network
\* unavailable, baseline not established) are told apart: when the dashboard has
\* reported one of them, no response and history with another of the three causes
\* would have given the same get_current_temp result and the same page.
C11_FailuresDistinguished ==
    lpath = "dashboard" /\ has_key /\ lpc \in {"stopped", "done"}
       /\ CauseOf(response[cities[1]], hist, cities[1], month) # "none" =>
        \A resp \in Outcomes :
            \A frame \in {History(temps) : temps \in BerlinWinter} :
                LET other == CauseOf(resp, frame, cities[1], month)
                IN other \notin {"none", CauseOf(response[cities[1]], hist, cities[1], month)}
                      => Reported(resp, frame, cities[1], month)
                            # [result |-> current, message |-> screen]

====
